---- MODULE Spec2Model ----
(***************************************************************************)
(* A model of CiderWS (src/ciderws.js): a WebSocket client session for the *)
(* Cider media player, with the entity decoders Song, States and           *)
(* PlaybackData (src/unnamed/part_001).                                    *)
(*                                                                         *)
(* JavaScript values are tagged records ([t |-> "number", n |-> 3]); a JS  *)
(* string is a sequence of tokens, so that replace() and the RegExp of the *)
(* Song decoder are computed over its pieces.                              *)
(***************************************************************************)
EXTENDS Integers, Sequences, FiniteSets, TLC

VARIABLES
    socks,        \* per instance: readyStates of the sockets it created (last = this.socket)
    currentSong,  \* per instance: this.currentSong
    states,       \* per instance: this.states
    evem,         \* the module-level EventEmitter: its listeners, in registration order
    polls,        \* per instance: running setInterval timers of getSong / getStates
    conts,        \* promise continuations waiting to run (playNext, playLater, quickPlay, getLyrics)
    announced,    \* per instance: did the last decoded playbackStateUpdate emit statesUpdate
    heard,        \* per instance: the Track id of the last songUpdate its frames emitted
    last          \* history: what the last step did (sends, events, errors)

vars == <<socks, currentSong, states, evem, polls, conts, announced, heard, last>>

(***************************************************************************)
(* Bounds of the model.                                                    *)
(***************************************************************************)
MaxListeners == 2
MaxPolls == 1
MaxConts == 1
MaxSockets == 2

Instances == {1, 2}

(***************************************************************************)
(* JavaScript values.                                                      *)
(***************************************************************************)
Undefined == [t |-> "undefined"]
Null == [t |-> "null"]
NaN == [t |-> "number", nan |-> TRUE]
Num(n) == [t |-> "number", n |-> n]
\* The number n + 1/2: the numbers that are not whole.
Frac(n) == [t |-> "number", n |-> n, frac |-> TRUE]
Str(toks) == [t |-> "string", s |-> toks]
Bool(b) == [t |-> "boolean", b |-> b]
Arr(seq) == [t |-> "object", arr |-> seq]

TypeOf(v) == IF v.t = "null" THEN "object" ELSE v.t

IsNaN(v) == v = NaN

IsFrac(v) == "frac" \in DOMAIN v

\* ToBoolean of the language: what `if (v)` and `!v` test.
Truthy(v) ==
    CASE v.t = "undefined" -> FALSE
      [] v.t = "null" -> FALSE
      [] v.t = "boolean" -> v.b
      [] v.t = "number" -> IF IsNaN(v) THEN FALSE ELSE IsFrac(v) \/ v.n # 0
      [] v.t = "string" -> Len(v.s) > 0
      [] OTHER -> TRUE

\* v == 1 of the language (abstract equality against the number 1).
LooseEqOne(v) ==
    CASE v.t = "number" -> IF IsNaN(v) THEN FALSE ELSE ~IsFrac(v) /\ v.n = 1
      [] v.t = "boolean" -> v.b
      [] v.t = "string" -> v.s = <<"1">>
      [] OTHER -> FALSE

\* a != b of the language, for the operands the model produces here: two
\* strings, or undefined against a string.
LooseNeq(a, b) == a # b

\* The decimal text of a number, as String(n) gives it.
NumToStr(v) ==
    IF IsNaN(v) THEN Str(<<"NaN">>)
    ELSE IF IsFrac(v) THEN Str(<<ToString(v.n), ".5">>)
    ELSE Str(<<ToString(v.n)>>)

\* String(v) for the values used as replacement text.
ToStr(v) ==
    CASE v.t = "string" -> v
      [] v.t = "number" -> NumToStr(v)
      [] v.t = "undefined" -> Str(<<"undefined">>)
      [] OTHER -> Str(<<"[object]">>)

\* The index of the first token equal to tok, or 0.
RECURSIVE IndexFrom(_, _, _)
IndexFrom(toks, tok, k) ==
    IF k > Len(toks) THEN 0
    ELSE IF toks[k] = tok THEN k
    ELSE IndexFrom(toks, tok, k + 1)

\* String.prototype.replace(pattern, replacement) with a string pattern:
\* the first occurrence only.
Replace(str, tok, with) ==
    LET k == IndexFrom(str.s, tok, 1) IN
    IF k = 0 THEN str
    ELSE Str(SubSeq(str.s, 1, k - 1) \o ToStr(with).s \o SubSeq(str.s, k + 1, Len(str.s)))

Digits == {"1", "2", "42"}

\* new RegExp("i=[0-9]+").exec(str): the index of the first "i=" that digits
\* follow, or 0 when exec returns null.
RECURSIVE ExecIdFrom(_, _)
ExecIdFrom(toks, k) ==
    IF k + 1 > Len(toks) THEN 0
    ELSE IF toks[k] = "i=" /\ toks[k + 1] \in Digits THEN k
    ELSE ExecIdFrom(toks, k + 1)

\* obj.field, undefined when the object has no such property.
Get(obj, field) == IF field \in DOMAIN obj THEN obj[field] ELSE Undefined

Ok(v) == [ok |-> TRUE, v |-> v]
Throw(e) == [ok |-> FALSE, err |-> e]

(***************************************************************************)
(* Entity decoders (src/unnamed/part_001).                                 *)
(***************************************************************************)
\* if (data.data) data = data.data
Unwrap(data) == IF Truthy(data.data) THEN data.data ELSE data

SongId(data, url) ==
    IF ~Truthy(data.songId)
    THEN IF TypeOf(data.url) = "string"
         THEN LET k == ExecIdFrom(url.s, 1) IN
              IF k = 0 THEN Throw("TypeError")
              ELSE Ok(Replace(Str(SubSeq(url.s, k, k + 1)), "i=", Str(<<>>)))
         ELSE Ok(Str(<<>>))
    ELSE Ok(data.songId)

SongUrl(data) ==
    IF TypeOf(data.url) = "object"
    THEN IF Truthy(data.url) THEN data.url.appleMusic ELSE Str(<<>>)
    ELSE data.url

\* The fields of a Song, once its id is known.
SongFields(data, url, id) ==
    IF ~id.ok THEN id
    ELSE Ok([t |-> "object",
             title |-> data.name,
             artist |-> data.artistName,
             album |-> data.albumName,
             artwork |-> Replace(Replace(data.artwork.url, "{w}", data.artwork.width),
                                 "{h}", data.artwork.height),
             trackNumber |-> data.trackNumber,
             url |-> url,
             id |-> id.v,
             duration |-> data.durationInMillis,
             genre |-> data.genreNames])

\* The constructor's body, on the unwrapped data.
SongOf(data) ==
    IF data.artwork.t # "object" THEN Throw("TypeError")
    ELSE IF data.artwork.url.t # "string" THEN Throw("TypeError")
    ELSE SongFields(data, SongUrl(data), SongId(data, SongUrl(data)))

Song(raw) ==
    IF raw.t # "object" THEN Throw("TypeError")
    ELSE SongOf(Unwrap(raw))

States(raw) ==
    LET data == Unwrap(raw) IN
    [t |-> "object",
     isPlaying |-> data.status,
     isShuffling |-> Bool(LooseEqOne(data.shuffleMode)),
     repeatMode |-> data.repeatMode,
     volume |-> data.volume,
     autoplay |-> data.autoplayEnabled]

\* Math.round: halves go up; what is no number gives NaN.
Round(v) ==
    IF v.t # "number" THEN NaN
    ELSE IF IsNaN(v) THEN NaN
    ELSE IF IsFrac(v) THEN Num(v.n + 1)
    ELSE v

Minus(a, b) ==
    IF a.t = "number" /\ b.t = "number" /\ ~IsNaN(a) /\ ~IsNaN(b)
    THEN IF IsFrac(a) = IsFrac(b) THEN Num(a.n - b.n)
         ELSE IF IsFrac(a) THEN Frac(a.n - b.n)
         ELSE Frac(a.n - b.n - 1)
    ELSE NaN

PlaybackData(raw) ==
    LET data == Unwrap(raw) IN
    [t |-> "object",
     isPlaying |-> data.status,
     startTime |-> data.startTime,
     endTime |-> data.endTime,
     remainingTime |-> Round(data.remainingTime),
     elapsedTime |-> Round(Minus(data.durationInMillis, data.remainingTime)),
     progress |-> data.currentPlaybackProgress]

\* JSON.stringify of a States object (or of undefined): the properties in
\* creation order, those whose value is undefined left out.
StatesKeys == <<"isPlaying", "isShuffling", "repeatMode", "volume", "autoplay">>

RECURSIVE StringifyFrom(_, _)
StringifyFrom(obj, k) ==
    IF k > Len(StatesKeys) THEN <<>>
    ELSE LET key == StatesKeys[k] IN
         (IF obj[key] = Undefined THEN <<>> ELSE <<[key |-> key, value |-> obj[key]]>>)
         \o StringifyFrom(obj, k + 1)

JSONstringify(v) ==
    IF v = Undefined THEN Undefined
    ELSE [t |-> "string", json |-> StringifyFrom(v, 1)]

(***************************************************************************)
(* Inbound frames.  A frame object carries every property the code reads,  *)
(* undefined when the service left it out.                                 *)
(***************************************************************************)
Artwork ==
    [t |-> "object", url |-> Str(<<"https://art/", "{w}", "x", "{h}", ".jpg">>),
     width |-> Num(600), height |-> Num(600)]

UrlObject == [t |-> "object", appleMusic |-> Str(<<"https://music/song?", "i=", "42">>)]
UrlMatch == Str(<<"https://music/song?", "i=", "42", "&l=en">>)
UrlNoMatch == Str(<<"https://music/station">>)

EmptyObject ==
    [t |-> "object", type |-> "", data |-> Undefined, message |-> Undefined,
     name |-> Undefined, artistName |-> Undefined, albumName |-> Undefined,
     artwork |-> Undefined, trackNumber |-> Undefined, url |-> Undefined,
     songId |-> Undefined, durationInMillis |-> Undefined, genreNames |-> Undefined,
     status |-> Undefined, shuffleMode |-> Undefined, repeatMode |-> Undefined,
     volume |-> Undefined, autoplayEnabled |-> Undefined, startTime |-> Undefined,
     endTime |-> Undefined, remainingTime |-> Undefined,
     currentPlaybackProgress |-> Undefined]

\* The attributes of one media item, as playbackStateUpdate, the queue and
\* the search results carry them.
Attributes(songId, url, artwork, dur, name, status, volume) ==
    [EmptyObject EXCEPT
        !.name = name, !.artistName = Str(<<"artist">>), !.albumName = Str(<<"album">>),
        !.artwork = artwork, !.trackNumber = Num(1), !.url = url, !.songId = songId,
        !.durationInMillis = dur, !.genreNames = Arr(<<Str(<<"Pop">>)>>),
        !.status = status, !.shuffleMode = Num(0), !.repeatMode = Num(0),
        !.volume = volume, !.autoplayEnabled = Bool(FALSE), !.startTime = Num(0),
        !.endTime = Num(0), !.remainingTime = Num(0),
        !.currentPlaybackProgress = Num(0)]

\* { type: ty, ...payload } and { type: ty, data: payload }
Flat(ty, payload) == [payload EXCEPT !.type = ty]
Wrapped(ty, payload) == [EmptyObject EXCEPT !.type = ty, !.data = payload]

Text(d) == [json |-> TRUE, d |-> d]
BadText == [json |-> FALSE, d |-> Null]

JSONparse(text) == IF text.json THEN Ok(text.d) ELSE Throw("SyntaxError")

(***************************************************************************)
(* The event emitter `evem` (src/ciderws.js line 5): one per process.      *)
(* A listener is [event, owner, kind, once, tag, then]; owner is the       *)
(* instance whose method registered it, which the emitter does not know.   *)
(***************************************************************************)
Listener(event, owner, kind, once, tag, then) ==
    [event |-> event, owner |-> owner, kind |-> kind, once |-> once, tag |-> tag,
     then |-> then]

\* The Songs of a list of entries, each decoded from pick(entry); a throw of
\* one decoder ends the loop.
\* e.item.attributes (queue) or e.attributes (search results).
Pick(e, attr) ==
    IF attr = "item"
    THEN (IF Get(e, "item").t # "object" THEN Undefined ELSE Get(e.item, "attributes"))
    ELSE Get(e, "attributes")

\* A variant that pushes each Song in front of the ones pushed before it.
Unshift(s, rest) ==
    IF ~s.ok THEN s
    ELSE IF ~rest.ok THEN rest
    ELSE Ok(rest.v \o <<s.v>>)

\* songs.push(new Song(...)) in front of what the rest of the loop pushes.
Push(s, rest) ==
    IF ~s.ok THEN s
    ELSE IF ~rest.ok THEN rest
    ELSE Ok(<<s.v>> \o rest.v)

RECURSIVE SongsFrom(_, _, _)
SongsFrom(entries, attr, k) ==
    IF k > Len(entries) THEN Ok(<<>>)
    ELSE IF entries[k].t # "object" THEN Throw("TypeError")
    ELSE IF Pick(entries[k], attr).t # "object" THEN Throw("TypeError")
    ELSE Push(Song(Pick(entries[k], attr)), SongsFrom(entries, attr, k + 1))

IsArr(v) == v.t = "object" /\ "arr" \in DOMAIN v

\* The callback getQueue registers (lines 287-302).
Queue(queue, items) ==
    IF ~items.ok THEN items
    ELSE Ok([t |-> "object", items |-> items.v,
             isAutoplay |-> Get(queue, "hasAutoplayStation"),
             isRestricted |-> Get(queue, "isRestricted"),
             position |-> Get(queue, "position"),
             nextPlayableIndex |-> Get(queue, "nextPlayableItemIndex")])

QueueCallback(frame) ==
    IF frame.data.t # "object" THEN Throw("TypeError")
    ELSE IF ~IsArr(Get(frame.data, "queueItems")) THEN Throw("TypeError")
    ELSE Queue(frame.data, SongsFrom(frame.data.queueItems.arr, "item", 1))

\* The callback getLyricsAdvanced registers (lines 467-469).
LyricsCallback(frame) == Ok(frame.data)

SearchKinds == [song |-> "songs", playlist |-> "playlists", album |-> "albums",
                artist |-> "artists"]

\* The callback search registers (lines 575-599); a promise keeps the value
\* of its first resolve.
SongList(songs) == IF ~songs.ok THEN songs ELSE Ok(Arr(songs.v))

\* The branch of one result kind, on d.data.<kind>.
SearchGroup(group, type) ==
    IF group.t # "object" THEN Throw("TypeError")
    ELSE IF type = "song"
         THEN IF ~IsArr(Get(group, "data")) THEN Throw("TypeError")
              ELSE SongList(SongsFrom(group.data.arr, "attributes", 1))
         ELSE Ok(Get(group, "data"))

SearchCallback(frame, type) ==
    IF type \notin DOMAIN SearchKinds THEN Ok(frame.data)
    ELSE IF frame.data.t # "object" THEN Throw("TypeError")
    ELSE SearchGroup(Get(frame.data, SearchKinds[type]), type)

RunListener(l, arg) ==
    CASE l.kind = "getQueue" -> QueueCallback(arg)
      [] l.kind = "getLyricsAdvanced" -> LyricsCallback(arg)
      [] l.kind = "search" -> SearchCallback(arg, l.tag)
      [] OTHER -> Ok(Undefined)

\* One emit in progress: the emitter's listeners, the events published so
\* far, the listeners called, the promises resolved, the error thrown.
Acc0(listeners) ==
    [evem |-> listeners, events |-> <<>>, invoked |-> <<>>, resolved |-> <<>>,
     threw |-> "", song |-> Undefined, states |-> Undefined, seen |-> <<>>]

\* A variant that assigns the snapshots only after the emits.
CachedLater(acc, song, stat) == acc

\* The snapshots a listener finds in this.currentSong and this.states while
\* the emit runs: acc.song and acc.states, logged in acc.seen at each emit.
Cached(acc, song, stat) == [acc EXCEPT !.song = song, !.states = stat]

\* The first listener equal to l removed.
RemoveOne(listeners, l) ==
    LET k == IndexFrom(listeners, l, 1) IN
    IF k = 0 THEN listeners
    ELSE SubSeq(listeners, 1, k - 1) \o SubSeq(listeners, k + 1, Len(listeners))

\* emit() calls a copy of the event's listeners in order; a `once` listener
\* is removed before it is called; a throwing listener ends the emit.
\* Listener l is about to be called.
Calling(acc, l) ==
    [acc EXCEPT !.evem = IF l.once THEN RemoveOne(@, l) ELSE @,
                !.invoked = Append(@, l)]

\* Listener l has returned r: a query's listener resolves its promise.
Returned(acc, l, r) ==
    IF ~r.ok THEN [acc EXCEPT !.threw = r.err]
    ELSE IF l.kind = "user" THEN acc
    ELSE [acc EXCEPT !.resolved = Append(@, [l |-> l, value |-> r.v])]

RECURSIVE CallFrom(_, _, _, _)
CallFrom(acc, todo, arg, k) ==
    IF k > Len(todo) THEN acc
    ELSE IF acc.threw # "" THEN acc
    ELSE CallFrom(Returned(Calling(acc, todo[k]), todo[k], RunListener(todo[k], arg)),
                  todo, arg, k + 1)

ListenersOf(listeners, event) == SelectSeq(listeners, LAMBDA l : l.event = event)

\* evem.emit(event, arg), after whatever acc has done; nothing more happens
\* once an error is on its way out.
Emit(acc, event, arg) ==
    IF acc.threw # "" THEN acc
    ELSE CallFrom([acc EXCEPT !.events = Append(@, [name |-> event, arg |-> arg]),
                              !.seen = Append(@, [song |-> acc.song,
                                                  states |-> acc.states])],
                  ListenersOf(acc.evem, event), arg, 1)

(***************************************************************************)
(* The session.                                                            *)
(***************************************************************************)
NoStep ==
    [kind |-> "init", inst |-> 0, name |-> "", text |-> BadText, args |-> <<>>,
     outcome |-> "ok", sent |-> <<>>, events |-> <<>>, invoked |-> <<>>,
     resolved |-> <<>>, preSong |-> Undefined, preStates |-> Undefined,
     preAnnounced |-> FALSE, created |-> FALSE, removed |-> <<>>, seen |-> <<>>]

Constructed(i) == Len(socks[i]) > 0

\* this.socket.readyState: 0 connecting, 1 open, 2 closing, 3 closed.  A
\* socket closing before it ever opened is kept apart as 4 (no frame can
\* arrive on it) and reads as 2.
ReadyState(i) == IF socks[i][Len(socks[i])] = 4 THEN 2 ELSE socks[i][Len(socks[i])]

\* this.socket.send(JSON.stringify(msg)), with the state the socket is in.
Send(i, msg) == [msg |-> msg, rs |-> ReadyState(i), inst |-> i]

Msg(action, body) == [action |-> action, body |-> body]

Identify ==
    Msg("identify", [name |-> "CiderWS", author |-> "ryzetech",
                     description |-> "A NodeJS WebSocket client for Cider",
                     version |-> "pre-alpha"])

\* The module is loaded: the emitter exists, no instance does.
Init ==
    /\ socks = [i \in Instances |-> <<>>]
    /\ currentSong = [i \in Instances |-> Undefined]
    /\ states = [i \in Instances |-> Undefined]
    /\ evem = <<>>
    /\ polls = [i \in Instances |-> [song |-> 0, states |-> 0]]
    /\ conts = <<>>
    /\ announced = [i \in Instances |-> FALSE]
    /\ heard = [i \in Instances |-> Undefined]
    /\ last = NoStep

\* A variant that also replaces a socket that is still connecting.
MayConnectUnlessOpen(sockets) == sockets = <<>> \/ sockets[Len(sockets)] # 1

\* if (!this.socket || this.socket.readyState == 3)
MayConnect(sockets) == sockets = <<>> \/ sockets[Len(sockets)] = 3

\* A variant without the test of the socket's state.
connectAnew(sockets) == SelectSeq(sockets, LAMBDA r : r # 3) \o <<0>>

\* connect(): the instance's sockets afterwards (a closed socket that is no
\* longer this.socket is dropped from the model).
connect(sockets) ==
    IF MayConnect(sockets)
    THEN SelectSeq(sockets, LAMBDA r : r # 3) \o <<0>>
    ELSE sockets

\* new CiderWS(host, port)
New(i) ==
    /\ ~Constructed(i)
    /\ socks' = [socks EXCEPT ![i] = connect(@)]
    /\ last' = [NoStep EXCEPT !.kind = "op", !.inst = i, !.name = "constructor",
                              !.created = TRUE]
    /\ UNCHANGED <<currentSong, states, evem, polls, conts, announced, heard>>

Connect(i) ==
    /\ Constructed(i)
    /\ Len(connect(socks[i])) <= MaxSockets
    /\ socks' = [socks EXCEPT ![i] = connect(@)]
    /\ last' = [NoStep EXCEPT !.kind = "op", !.inst = i, !.name = "connect",
                              !.created = (connect(socks[i]) # socks[i])]
    /\ UNCHANGED <<currentSong, states, evem, polls, conts, announced, heard>>

\* WebSocket.close(): a connecting or open socket starts closing.
close(rs) == IF rs = 0 THEN 4 ELSE IF rs = 1 THEN 2 ELSE rs

Close(i) ==
    /\ Constructed(i)
    /\ socks' = [socks EXCEPT ![i][Len(socks[i])] = close(@)]
    /\ last' = [NoStep EXCEPT !.kind = "op", !.inst = i, !.name = "close"]
    /\ UNCHANGED <<currentSong, states, evem, polls, conts, announced, heard>>

\* The transport reports socket k of the instance open: socket.onopen.
TransportOpen(i, k) ==
    /\ k \in 1..Len(socks[i])
    /\ socks[i][k] = 0
    /\ socks' = [socks EXCEPT ![i][k] = 1]
    /\ last' = [NoStep EXCEPT !.kind = "open", !.inst = i, !.name = "onopen",
                              !.sent = <<[msg |-> Identify,
                                         rs |-> socks'[i][Len(socks[i])],
                                         inst |-> i]>>]
    /\ UNCHANGED <<currentSong, states, evem, polls, conts, announced, heard>>

\* The continuations of the promises an emit resolved (await in playNext,
\* playLater, quickPlay, getLyrics).
Continuations(resolved) ==
    LET waiting == SelectSeq(resolved, LAMBDA r : r.l.then # "none") IN
    [k \in 1..Len(waiting) |->
        [inst |-> waiting[k].l.owner, then |-> waiting[k].l.then,
         tag |-> waiting[k].l.tag, value |-> waiting[k].value]]

\* socket.onclose = (event) => { evem.emit("close"), event; }
onclose(listeners) == Emit(Acc0(listeners), "close", Undefined)

\* The transport reports socket k closed (by close(), by the peer, or because
\* it could not connect).
TransportClose(i, k) ==
    /\ k \in 1..Len(socks[i])
    /\ socks[i][k] \in {0, 1, 2, 4}
    /\ \E acc \in {onclose(evem)} :
       /\ socks' = [socks EXCEPT ![i][k] = 3]
       /\ evem' = acc.evem
       /\ conts' = conts \o Continuations(acc.resolved)
       /\ last' = [NoStep EXCEPT !.kind = "close", !.inst = i, !.name = "onclose",
                                 !.outcome = IF acc.threw = "" THEN "ok" ELSE acc.threw,
                                 !.events = acc.events, !.invoked = acc.invoked,
                                 !.resolved = acc.resolved]
    /\ UNCHANGED <<currentSong, states, polls, announced, heard>>

(***************************************************************************)
(* handleMessage (lines 64-95).                                            *)
(***************************************************************************)
\* A variant that compares the whole Track.
SongChangedAnyField(cur, newSong) == cur = Undefined \/ cur # newSong

\* this.currentSong == undefined || this.currentSong.id != newSong.id
SongChanged(cur, newSong) == cur = Undefined \/ LooseNeq(cur.id, newSong.id)

\* A variant with >= for >.
PositiveOrZero(duration) ==
    /\ duration.t = "number"
    /\ ~IsNaN(duration)
    /\ duration.n >= 0

\* newSong.duration > 0
Positive(duration) ==
    /\ duration.t = "number"
    /\ ~IsNaN(duration)
    /\ IF IsFrac(duration) THEN duration.n >= 0 ELSE duration.n > 0

\* A variant without the comparison.
StatesChangedAlways(stat, newStat) == TRUE

\* JSON.stringify(this.states) != JSON.stringify(newStat)
StatesChanged(stat, newStat) == JSONstringify(stat) # JSONstringify(newStat)

Handled(acc, song, stat, decoded, statEmitted) ==
    [acc |-> acc, song |-> song, states |-> stat, decoded |-> decoded,
     statEmitted |-> statEmitted]

Thrown(acc, err) == [acc EXCEPT !.threw = err]

\* case "playbackStateUpdate" (lines 73-87), after the passthrough emit.
\* A variant that republishes the timing only with a changed PlayerState.
playbackUpdateIfChanged(a2, song2, stat, newStat, stc, d) ==
    Handled(IF stc THEN Emit(Emit(Cached(a2, song2, newStat), "statesUpdate", newStat),
                             "playbackUpdate", PlaybackData(d))
            ELSE a2,
            song2, IF stc THEN newStat ELSE stat, a2.threw = "", stc)

\* lines 84-86, and what the case leaves behind; stc: line 80 was reached and
\* its condition held.
playbackUpdate(a2, song2, stat, newStat, stc, d) ==
    Handled(Emit(IF stc THEN Emit(Cached(a2, song2, newStat), "statesUpdate", newStat)
                 ELSE a2,
                 "playbackUpdate", PlaybackData(d)),
            song2, IF stc THEN newStat ELSE stat, a2.threw = "", stc)

\* A variant that announces a PlayerState only while none is cached.
statesUpdateFirstOnly(a2, song2, stat, newStat, d) ==
    playbackUpdate(a2, song2, stat, newStat,
                   a2.threw = "" /\ stat = Undefined, d)

\* lines 80-83
statesUpdate(a2, song2, stat, newStat, d) ==
    playbackUpdate(a2, song2, stat, newStat,
                   a2.threw = "" /\ StatesChanged(stat, newStat), d)

\* A variant that announces a Track only while none is cached.
songUpdateFirstOnly(a1, cur, stat, newSong, d) ==
    statesUpdate(IF cur = Undefined /\ Positive(newSong.duration)
                 THEN Emit(Cached(a1, newSong, stat), "songUpdate", newSong)
                 ELSE IF SongChanged(cur, newSong) THEN Cached(a1, newSong, stat)
                 ELSE a1,
                 IF SongChanged(cur, newSong) THEN newSong ELSE cur,
                 stat, States(d), d)

\* lines 76-79
songUpdate(a1, cur, stat, newSong, d) ==
    statesUpdate(IF SongChanged(cur, newSong) /\ Positive(newSong.duration)
                 THEN Emit(Cached(a1, newSong, stat), "songUpdate", newSong)
                 ELSE IF SongChanged(cur, newSong) THEN Cached(a1, newSong, stat)
                 ELSE a1,
                 IF SongChanged(cur, newSong) THEN newSong ELSE cur,
                 stat, States(d), d)

\* lines 74-75: s is what new Song(d) gave.
construct(a1, cur, stat, s, d) ==
    IF ~s.ok THEN Handled(Thrown(a1, s.err), cur, stat, FALSE, FALSE)
    ELSE songUpdate(a1, cur, stat, s.v, d)

playbackStateUpdate(a1, cur, stat, d) == construct(a1, cur, stat, Song(d), d)

\* case "generic" (lines 88-93)
generic(a1, d) ==
    IF d.message = Str(<<"Thanks for identifying!">>)
    THEN Emit(a1, "ready", Undefined) ELSE a1

\* A variant that publishes only the types the switch knows.
passthroughKnown(acc, d) ==
    IF d.type \in {"playbackStateUpdate", "generic"}
    THEN Emit(acc, d.type, d) ELSE acc

\* evem.emit(d.type, d) (line 66)
passthrough(acc, d) == Emit(acc, d.type, d)

\* switch (d.type) (lines 72-94), a1 being what the passthrough emit did.
switch(a1, cur, stat, d) ==
    IF a1.threw # "" THEN Handled(a1, cur, stat, FALSE, FALSE)
    ELSE CASE d.type = "playbackStateUpdate" -> playbackStateUpdate(a1, cur, stat, d)
           [] d.type = "generic" -> Handled(generic(a1, d), cur, stat, FALSE, FALSE)
           [] OTHER -> Handled(a1, cur, stat, FALSE, FALSE)

handleMessage(listeners, cur, stat, text) ==
    IF ~JSONparse(text).ok
    THEN Handled(Thrown(Acc0(listeners), JSONparse(text).err), cur, stat, FALSE, FALSE)
    ELSE IF JSONparse(text).v.t # "object"
    THEN Handled(Thrown(Acc0(listeners), "TypeError"), cur, stat, FALSE, FALSE)
    ELSE switch(passthrough(Cached(Acc0(listeners), cur, stat), JSONparse(text).v),
                cur, stat, JSONparse(text).v)

\* The id of the Track the last songUpdate among the events carried, else
\* that of one before them.
Heard(events, before) ==
    IF SelectSeq(events, LAMBDA e : e.name = "songUpdate") = <<>> THEN before
    ELSE SelectSeq(events, LAMBDA e : e.name = "songUpdate")[
             Len(SelectSeq(events, LAMBDA e : e.name = "songUpdate"))].arg.id

\* The transport delivers a text frame on this.socket: socket.onmessage.
HandleMessage(i, text) ==
    /\ Constructed(i)
    /\ socks[i][Len(socks[i])] \in {1, 2}
    /\ \E h \in {handleMessage(evem, currentSong[i], states[i], text)} :
       /\ currentSong' = [currentSong EXCEPT ![i] = h.song]
       /\ states' = [states EXCEPT ![i] = h.states]
       /\ evem' = h.acc.evem
       /\ conts' = conts \o Continuations(h.acc.resolved)
       /\ announced' = [announced EXCEPT ![i] = IF h.decoded THEN h.statEmitted ELSE @]
       /\ heard' = [heard EXCEPT ![i] = Heard(h.acc.events, @)]
       /\ last' = [NoStep EXCEPT !.kind = "frame", !.inst = i, !.name = "onmessage",
                                 !.text = text,
                                 !.outcome = IF h.acc.threw = "" THEN "ok" ELSE h.acc.threw,
                                 !.events = h.acc.events, !.invoked = h.acc.invoked,
                                 !.seen = h.acc.seen,
                                 !.resolved = h.acc.resolved,
                                 !.preSong = currentSong[i], !.preStates = states[i],
                                 !.preAnnounced = announced[i]]
    /\ UNCHANGED <<socks, polls>>

(***************************************************************************)
(* Listener management (lines 144-187).                                    *)
(***************************************************************************)
\* on(event, callback) and once(event, callback)
On(i, event, cb, once) ==
    /\ Constructed(i)
    /\ Len(evem) < MaxListeners
    /\ evem' = Append(evem, Listener(event, i, "user", once, cb, "none"))
    /\ last' = [NoStep EXCEPT !.kind = "op", !.inst = i,
                              !.name = IF once THEN "once" ELSE "on"]
    /\ UNCHANGED <<socks, currentSong, states, polls, conts, announced, heard>>

\* The index of the listener removeListener removes: the one added last
\* among those of the event with that callback, or 0.
RECURSIVE LastIndex(_, _, _, _)
LastIndex(listeners, event, cb, k) ==
    IF k = 0 THEN 0
    ELSE IF /\ listeners[k].event = event
            /\ listeners[k].kind = "user"
            /\ listeners[k].tag = cb
         THEN k
         ELSE LastIndex(listeners, event, cb, k - 1)

removeListener(listeners, event, cb) ==
    LET k == LastIndex(listeners, event, cb, Len(listeners)) IN
    IF k = 0 THEN listeners
    ELSE SubSeq(listeners, 1, k - 1) \o SubSeq(listeners, k + 1, Len(listeners))

\* removeListener(event, callback) and its alias off
RemoveListener(i, event, cb) ==
    /\ Constructed(i)
    /\ evem' = removeListener(evem, event, cb)
    /\ last' = [NoStep EXCEPT !.kind = "op", !.inst = i, !.name = "removeListener",
                  !.removed = IF LastIndex(evem, event, cb, Len(evem)) = 0 THEN <<>>
                              ELSE <<evem[LastIndex(evem, event, cb, Len(evem))]>>]
    /\ UNCHANGED <<socks, currentSong, states, polls, conts, announced, heard>>

\* removeAllListeners(event): of the event, or of every event when none is named
removeAllListeners(listeners, event) ==
    IF event = "" THEN <<>>
    ELSE SelectSeq(listeners, LAMBDA l : l.event # event)

RemoveAllListeners(i, event) ==
    /\ Constructed(i)
    /\ evem' = removeAllListeners(evem, event)
    /\ last' = [NoStep EXCEPT !.kind = "op", !.inst = i, !.name = "removeAllListeners",
                  !.removed = SelectSeq(evem, LAMBDA l : event = "" \/ l.event = event)]
    /\ UNCHANGED <<socks, currentSong, states, polls, conts, announced, heard>>

(***************************************************************************)
(* Commands (lines 46-59, 130-136, 219-225, 311-449, 494-550).  A method   *)
(* is an operator from the socket's readyState and the arguments to what   *)
(* it throws ("ok" when nothing) and the messages it sends.                *)
(***************************************************************************)
Res(outcome, msgs) == [outcome |-> outcome, msgs |-> msgs]
Fail(err) == Res(err, <<>>)
Sends(msg) == Res("ok", <<msg>>)
Field(k, v) == [k |-> k, v |-> v]

\* What `new WebsocketConnectionError(status)` raises (part_001 lines
\* 113-126): the cases of its switch fall through, so that for 0 and 2 super
\* is called twice, which is a ReferenceError, as is never calling it.
WebsocketConnectionError(status) ==
    IF status = 3 THEN "WebsocketConnectionError" ELSE "ReferenceError"

\* A variant that refuses a closed socket only.
connectionCheckClosed(rs) == IF rs = 3 THEN WebsocketConnectionError(rs) ELSE ""

\* connectionCheck(): the error thrown, "" when none.
connectionCheck(rs) == IF rs # 1 THEN WebsocketConnectionError(rs) ELSE ""

\* param >= lo && param <= hi, for whole lo and hi
InRange(param, lo, hi) ==
    /\ ~IsNaN(param)
    /\ param.n >= lo
    /\ IF IsFrac(param) THEN param.n < hi ELSE param.n <= hi

\* paramCheck(param, label, type, rangeStart, rangeEnd): the error thrown.
paramCheck(param, type, ranged, lo, hi) ==
    IF TypeOf(param) = "undefined" THEN "MissingParameterError"
    ELSE IF TypeOf(param) # type THEN "ParameterTypeMismatchError"
    ELSE IF ranged /\ ~InRange(param, lo, hi) THEN "ParameterRangeError"
    ELSE ""

\* The first error of a list of checks done in order.
RECURSIVE FirstError(_)
FirstError(errs) ==
    IF errs = <<>> THEN ""
    ELSE IF Head(errs) # "" THEN Head(errs)
    ELSE FirstError(Tail(errs))

\* A default parameter value.
Default(v, d) == IF v = Undefined THEN d ELSE v

\* Guarded(errs, msg): throw the first error, or send msg.
Guarded(errs, msg) ==
    LET e == FirstError(errs) IN IF e # "" THEN Fail(e) ELSE Sends(msg)

quit(rs) == Guarded(<<connectionCheck(rs)>>, Msg("quit", <<>>))

forceUpdate(rs) == Guarded(<<connectionCheck(rs)>>, Msg("get-currentmediaitem", <<>>))

moveQueue(rs, from, to) ==
    Guarded(<<connectionCheck(rs)>>,
            Msg("queue-move", <<Field("from", from), Field("to", to)>>))

Commands == {"play", "pause", "playpause", "next", "previous"}

command(rs, com) ==
    Guarded(<<connectionCheck(rs),
              paramCheck(com, "string", FALSE, 0, 0),
              IF com.t = "string" /\ com.s \in {<<c>> : c \in Commands} THEN "" ELSE "Error">>,
            Msg(IF com.t = "string" /\ Len(com.s) = 1 THEN com.s[1] ELSE "", <<>>))

\* parseInt(n / d) for integers n and d > 0: the quotient truncated.
Trunc(n, d) == IF n >= 0 THEN n \div d ELSE -((-n) \div d)

\* !parseFloat(time) for a number
NotParseFloat(time) == time.t = "number" /\ ~Truthy(time)

seek(rs, time, adjust) ==
    Guarded(<<connectionCheck(rs),
              paramCheck(time, "number", FALSE, 0, 0),
              IF NotParseFloat(time) THEN "ParameterTypeMismatchError" ELSE "">>,
            Msg("seek", <<Field("data",
                IF Truthy(Default(adjust, Bool(FALSE))) /\ time.t = "number" /\ ~IsNaN(time)
                THEN Num(Trunc(time.n, 1000)) ELSE time)>>))

setVolume(rs, volume) ==
    Guarded(<<connectionCheck(rs), paramCheck(volume, "number", TRUE, 0, 1)>>,
            Msg("volume", <<Field("volume", volume)>>))

mute(rs, enable) ==
    Guarded(<<connectionCheck(rs), paramCheck(enable, "boolean", FALSE, 0, 0)>>,
            Msg(IF Truthy(enable) THEN "mute" ELSE "unmute", <<>>))

cycleRepeat(rs) == Guarded(<<connectionCheck(rs)>>, Msg("repeat", <<>>))

\* mode % 1 !== 0
NotWhole(mode) == mode.t = "number" /\ (IsNaN(mode) \/ IsFrac(mode))

setRepeat(rs, mode) ==
    Guarded(<<connectionCheck(rs), paramCheck(mode, "number", TRUE, 0, 2),
              IF NotWhole(mode) THEN "ParameterTypeMismatchError" ELSE "">>,
            Msg("set-repeat", <<Field("repeat", mode)>>))

toggleShuffle(rs) == Guarded(<<connectionCheck(rs)>>, Msg("shuffle", <<>>))

setShuffle(rs, enabled) ==
    Guarded(<<connectionCheck(rs), paramCheck(enabled, "boolean", FALSE, 0, 0)>>,
            Msg("set-shuffle",
                <<Field("shuffle", IF Truthy(enabled) THEN Num(1) ELSE Num(0))>>))

setAutoplay(rs, enabled) ==
    Guarded(<<connectionCheck(rs), paramCheck(enabled, "boolean", FALSE, 0, 0)>>,
            Msg("set-autoplay", <<Field("autoplay", enabled)>>))

ById(rs, action, kindKey, id, kind) ==
    Guarded(<<connectionCheck(rs), paramCheck(id, "string", FALSE, 0, 0),
              paramCheck(Default(kind, Str(<<"song">>)), "string", FALSE, 0, 0)>>,
            Msg(action, <<Field("id", id),
                          Field(kindKey, Default(kind, Str(<<"song">>)))>>))

playById(rs, id, kind) == ById(rs, "play-mediaitem", "kind", id, kind)
playNextById(rs, id, kind) == ById(rs, "play-next", "type", id, kind)
playLaterById(rs, id, kind) == ById(rs, "play-later", "type", id, kind)

\* The part of a query that runs before its promise is created.
\* A variant that does not ask the service for an update.
getSongSilent(rs) ==
    LET c == connectionCheck(rs) IN IF c # "" THEN Fail(c) ELSE Res("ok", <<>>)

getSong(rs) ==
    LET c == connectionCheck(rs) IN IF c # "" THEN Fail(c) ELSE forceUpdate(rs)

getStates(rs) ==
    LET c == connectionCheck(rs) IN IF c # "" THEN Fail(c) ELSE forceUpdate(rs)

getQueue(rs) == Guarded(<<connectionCheck(rs)>>, Msg("get-queue", <<>>))

getLyricsAdvanced(rs) == Guarded(<<connectionCheck(rs)>>, Msg("get-lyrics", <<>>))

search(rs, query, type, limit) ==
    Guarded(<<connectionCheck(rs), paramCheck(query, "string", FALSE, 0, 0),
              paramCheck(Default(type, Str(<<"song">>)), "string", FALSE, 0, 0),
              paramCheck(Default(limit, Num(10)), "number", TRUE, 1, 50)>>,
            Msg("search", <<Field("term", query),
                            Field("limit", Default(limit, Num(10)))>>))

(***************************************************************************)
(* Actions of the commands and queries.                                    *)
(***************************************************************************)
Sent(i, res) == [k \in 1..Len(res.msgs) |-> Send(i, res.msgs[k])]

Called(i, name, args, res) ==
    [NoStep EXCEPT !.kind = "op", !.inst = i, !.name = name, !.args = args,
                   !.outcome = res.outcome, !.sent = Sent(i, res)]

\* A method that only checks and sends.
Call(i, name, args, res) ==
    /\ Constructed(i)
    /\ last' = Called(i, name, args, res)
    /\ UNCHANGED <<socks, currentSong, states, evem, polls, conts, announced, heard>>

Quit(i) == Call(i, "quit", <<>>, quit(ReadyState(i)))
ForceUpdate(i) == Call(i, "forceUpdate", <<>>, forceUpdate(ReadyState(i)))
MoveQueue(i, from, to) ==
    Call(i, "moveQueue", <<from, to>>, moveQueue(ReadyState(i), from, to))
Command(i, com) == Call(i, "command", <<com>>, command(ReadyState(i), com))
Seek(i, time, adjust) ==
    Call(i, "seek", <<time, adjust>>, seek(ReadyState(i), time, adjust))
SetVolume(i, volume) ==
    Call(i, "setVolume", <<volume>>, setVolume(ReadyState(i), volume))
Mute(i, enable) == Call(i, "mute", <<enable>>, mute(ReadyState(i), enable))
CycleRepeat(i) == Call(i, "cycleRepeat", <<>>, cycleRepeat(ReadyState(i)))
SetRepeat(i, mode) == Call(i, "setRepeat", <<mode>>, setRepeat(ReadyState(i), mode))
ToggleShuffle(i) == Call(i, "toggleShuffle", <<>>, toggleShuffle(ReadyState(i)))
SetShuffle(i, enabled) ==
    Call(i, "setShuffle", <<enabled>>, setShuffle(ReadyState(i), enabled))
SetAutoplay(i, enabled) ==
    Call(i, "setAutoplay", <<enabled>>, setAutoplay(ReadyState(i), enabled))
PlayById(i, id, kind) ==
    Call(i, "playById", <<id, kind>>, playById(ReadyState(i), id, kind))
PlayNextById(i, id, kind) ==
    Call(i, "playNextById", <<id, kind>>, playNextById(ReadyState(i), id, kind))
\* playLaterById and its alias enqueueById
PlayLaterById(i, id, kind) ==
    Call(i, "playLaterById", <<id, kind>>, playLaterById(ReadyState(i), id, kind))

\* A promise settled outside an emit, in the shape of Emit's `resolved`.
Settled(i, kind, value) ==
    <<[l |-> Listener("", i, kind, TRUE, "", "none"), value |-> value]>>

\* getSong / getStates: resolve at once with the cached snapshot, or start
\* the 10 ms interval that waits for one.
Snapshot(i, which) == IF which = "song" THEN currentSong[i] ELSE states[i]

GetSnapshot(i, which, name, res) ==
    /\ Constructed(i)
    /\ IF res.outcome = "ok" /\ ~Truthy(Snapshot(i, which))
       THEN /\ polls[i][which] < MaxPolls
            /\ polls' = [polls EXCEPT ![i][which] = @ + 1]
       ELSE UNCHANGED polls
    /\ last' = [Called(i, name, <<>>, res) EXCEPT
                  !.resolved = IF res.outcome = "ok" /\ Truthy(Snapshot(i, which))
                               THEN Settled(i, name, Snapshot(i, which)) ELSE <<>>]
    /\ UNCHANGED <<socks, currentSong, states, evem, conts, announced, heard>>

GetSong(i) == GetSnapshot(i, "song", "getSong", getSong(ReadyState(i)))
GetStates(i) == GetSnapshot(i, "states", "getStates", getStates(ReadyState(i)))

\* One run of the interval callback that finds the snapshot: it clears the
\* interval and resolves.  (A run that finds none changes nothing.)
PollTick(i, which) ==
    /\ polls[i][which] > 0
    /\ Truthy(Snapshot(i, which))
    /\ polls' = [polls EXCEPT ![i][which] = @ - 1]
    /\ last' = [NoStep EXCEPT !.kind = "tick", !.inst = i,
                  !.name = IF which = "song" THEN "getSong" ELSE "getStates",
                  !.resolved = Settled(i, IF which = "song" THEN "getSong" ELSE "getStates",
                                       Snapshot(i, which))]
    /\ UNCHANGED <<socks, currentSong, states, evem, conts, announced, heard>>

\* The promises with a continuation that are not settled or not continued yet.
Awaited == Len(SelectSeq(evem, LAMBDA l : l.then # "none")) + Len(conts)

\* A query that sends and then waits, with evem.once, for the next frame of
\* a type; `then` names the caller that awaits it ("none": the user).
Query(i, name, args, res, event, kind, tag, then) ==
    /\ Constructed(i)
    /\ IF res.outcome = "ok"
       THEN /\ Len(evem) < MaxListeners
            /\ then # "none" => Awaited < MaxConts
            /\ evem' = Append(evem, Listener(event, i, kind, TRUE, tag, then))
       ELSE UNCHANGED evem
    /\ last' = Called(i, name, args, res)
    /\ UNCHANGED <<socks, currentSong, states, polls, conts, announced, heard>>

GetQueue(i) ==
    Query(i, "getQueue", <<>>, getQueue(ReadyState(i)), "queue", "getQueue", "", "none")

GetLyricsAdvanced(i) ==
    Query(i, "getLyricsAdvanced", <<>>, getLyricsAdvanced(ReadyState(i)),
          "lyrics", "getLyricsAdvanced", "", "none")

\* getLyrics(): awaits getLyricsAdvanced()
GetLyrics(i) ==
    Query(i, "getLyrics", <<>>, getLyricsAdvanced(ReadyState(i)),
          "lyrics", "getLyricsAdvanced", "", "getLyrics")

\* The type a search callback switches on: the text of a one-token string.
TypeTag(type) ==
    LET ty == Default(type, Str(<<"song">>)) IN
    IF ty.t = "string" /\ Len(ty.s) = 1 THEN ty.s[1] ELSE ""

Search(i, query, type, limit) ==
    Query(i, "search", <<query, type, limit>>, search(ReadyState(i), query, type, limit),
          "searchResults", "search", TypeTag(type), "none")

\* playNext, playLater (and its alias enqueue), quickPlay: await
\* search(query, type, 1)
SearchAnd(i, then, query, type) ==
    Query(i, then, <<query, type>>, search(ReadyState(i), query, type, Num(1)),
          "searchResults", "search", TypeTag(type), then)

PlayNext(i, query, type) == SearchAnd(i, "playNext", query, type)
PlayLater(i, query, type) == SearchAnd(i, "playLater", query, type)
QuickPlay(i, query, type) == SearchAnd(i, "quickPlay", query, type)

(***************************************************************************)
(* What runs after an awaited promise resolves (lines 478-487, 609-644).   *)
(***************************************************************************)
Whitespace == {" ", "\t"}

RECURSIVE TrimStart(_)
TrimStart(toks) ==
    IF toks # <<>> /\ Head(toks) \in Whitespace THEN TrimStart(Tail(toks)) ELSE toks

RECURSIVE TrimEnd(_)
TrimEnd(toks) ==
    IF toks # <<>> /\ toks[Len(toks)] \in Whitespace
    THEN TrimEnd(SubSeq(toks, 1, Len(toks) - 1)) ELSE toks

\* String.prototype.trim
Trim(str) == Str(TrimEnd(TrimStart(str.s)))

\* line.startsWith("lrc"): the text "lrc" is a token of its own
StartsWithLrc(str) == str.s # <<>> /\ Head(str.s) = "lrc"

\* A variant of the loop that skips the metadata lines only.
RECURSIVE LyricsKeepingBlank(_, _, _)
LyricsKeepingBlank(lines, k, full) ==
    IF k > Len(lines) THEN Ok(Str(full))
    ELSE IF lines[k].t # "object" THEN Throw("TypeError")
    ELSE IF Get(lines[k], "line").t # "string" THEN Throw("TypeError")
    ELSE IF StartsWithLrc(Trim(lines[k].line))
         THEN LyricsKeepingBlank(lines, k + 1, full)
         ELSE LyricsKeepingBlank(lines, k + 1, full \o Trim(lines[k].line).s \o <<"\n">>)

\* The loop of getLyrics over the lines from k on, appended to `full`.
RECURSIVE LyricsFrom(_, _, _)
LyricsFrom(lines, k, full) ==
    IF k > Len(lines) THEN Ok(Str(full))
    ELSE LET l == lines[k] IN
         IF l.t # "object" THEN Throw("TypeError")
         ELSE IF Get(l, "line").t # "string" THEN Throw("TypeError")
         ELSE LET line == Trim(l.line) IN
              IF StartsWithLrc(line) \/ line = Str(<<>>)
              THEN LyricsFrom(lines, k + 1, full)
              ELSE LyricsFrom(lines, k + 1, full \o line.s \o <<"\n">>)

\* getLyrics after its await: the text, or the error of for...of over what
\* is no array.
getLyrics(lyrics) ==
    IF ~IsArr(lyrics) THEN Throw("TypeError") ELSE LyricsFrom(lyrics.arr, 1, <<>>)

\* result[0].id
FirstId(result) ==
    IF ~IsArr(result) THEN Throw("TypeError")
    ELSE IF result.arr = <<>> THEN Throw("TypeError")
    ELSE IF result.arr[1].t # "object" THEN Throw("TypeError")
    ELSE Ok(Get(result.arr[1], "id"))

\* playNext / playLater / quickPlay after their await.
afterSearch(then, rs, result, type) ==
    LET id == FirstId(result) IN
    IF ~id.ok THEN Fail(id.err)
    ELSE CASE then = "playNext" -> playNextById(rs, id.v, type)
           [] then = "playLater" -> playLaterById(rs, id.v, type)
           [] OTHER -> playById(rs, id.v, type)

\* The oldest waiting continuation runs.
RunCont ==
    /\ conts # <<>>
    /\ \E c \in {Head(conts)} :
       \E text \in {getLyrics(c.value)} :
       \E res \in {IF c.then = "getLyrics"
                   THEN (IF text.ok THEN Res("ok", <<>>) ELSE Fail(text.err))
                   ELSE afterSearch(c.then, ReadyState(c.inst), c.value, Str(<<c.tag>>))} :
           last' = [NoStep EXCEPT
                      !.kind = "cont", !.inst = c.inst, !.name = c.then,
                      !.args = <<c.value>>,
                      !.outcome = res.outcome, !.sent = Sent(c.inst, res),
                      !.resolved = IF c.then = "getLyrics" /\ text.ok
                                   THEN Settled(c.inst, "getLyrics", text.v) ELSE <<>>]
    /\ conts' = Tail(conts)
    /\ UNCHANGED <<socks, currentSong, states, evem, polls, announced, heard>>

(***************************************************************************)
(* Inputs.                                                                 *)
(***************************************************************************)
A == Str(<<"a">>)
B == Str(<<"b">>)
T1 == Str(<<"t1">>)
T2 == Str(<<"t2">>)

Durations == {Undefined, Num(0), Num(-1), Num(1000)}

\* status and volume of a frame
PlayerStates == {<<Bool(TRUE), Num(1)>>, <<Bool(FALSE), Num(1)>>, <<Bool(TRUE), Undefined>>}

\* Media items that decode, with an explicit songId.
GoodItems ==
    {Attributes(id, UrlObject, Artwork, dur, T1, st[1], st[2]) :
        id \in {A, B}, dur \in Durations, st \in PlayerStates}
    \cup {Attributes(id, UrlObject, Artwork, Num(1000), T2, Bool(TRUE), Num(1)) :
            id \in {A, B}}

\* Media items without songId: the id comes from the url, or decoding fails;
\* and one without artwork.
OddItems ==
    {Attributes(Undefined, UrlMatch, Artwork, Num(1000), T1, Bool(TRUE), Num(1)),
     Attributes(Undefined, UrlNoMatch, Artwork, Num(1000), T1, Bool(TRUE), Num(1)),
     Attributes(Undefined, Undefined, Artwork, Num(0), T1, Bool(FALSE), Num(1)),
     Attributes(A, UrlObject, Undefined, Num(1000), T1, Bool(TRUE), Num(1))}

StateFrames ==
    {Text(Flat("playbackStateUpdate", p)) : p \in GoodItems \cup OddItems}
    \cup {Text(Wrapped("playbackStateUpdate", p)) :
            p \in {q \in GoodItems : q.durationInMillis = Num(1000) /\ q.volume = Num(1)}}

GenericFrames ==
    {Text([EmptyObject EXCEPT !.type = "generic", !.message = Str(<<m>>)]) :
        m \in {"Thanks for identifying!", "Action not found"}}

OtherFrames == {Text([EmptyObject EXCEPT !.type = "somethingElse"])}

BrokenFrames == {BadText, Text(Null)}

Frames == StateFrames \cup GenericFrames \cup OtherFrames \cup BrokenFrames


(***************************************************************************)
(* The session of one instance under every inbound frame.                  *)
(***************************************************************************)
Next ==
    \/ New(1)
    \/ Connect(1)
    \/ Close(1)
    \/ \E k \in 1..MaxSockets : TransportOpen(1, k)
    \/ \E k \in 1..MaxSockets : TransportClose(1, k)
    \/ \E text \in Frames : HandleMessage(1, text)

Spec == Init /\ [][Next]_vars

(***************************************************************************)
(* The commands of one instance over its connection's life.                *)
(***************************************************************************)
Q == Str(<<"q">>)
Album == Str(<<"album">>)

CommandArgs == {Undefined, Num(1), Str(<<"play">>), Str(<<"stop">>)}
TimeArgs == {Undefined, Q, Num(0), Num(125), Num(125000), Num(-1500), Frac(1)}
VolumeArgs == {Undefined, Q, Num(0), Num(1), Num(2), Num(-1), Frac(0)}
ModeArgs == {Undefined, Q, Num(0), Num(1), Num(2), Num(3), Num(-1), Frac(1)}
FlagArgs == {Undefined, Bool(TRUE), Bool(FALSE), Num(1)}
IdArgs == {Undefined, A, Num(1)}
KindArgs == {Undefined, Album, Num(1)}
LimitArgs == {Undefined, Num(0), Num(1), Num(50), Num(51)}

NextCmd ==
    \/ New(1)
    \/ Connect(1)
    \/ Close(1)
    \/ \E k \in 1..MaxSockets : TransportOpen(1, k)
    \/ \E k \in 1..MaxSockets : TransportClose(1, k)
    \/ Quit(1)
    \/ ForceUpdate(1)
    \/ \E from \in {Undefined, Num(0)}, to \in {Num(1), Q} : MoveQueue(1, from, to)
    \/ \E com \in CommandArgs : Command(1, com)
    \/ \E time \in TimeArgs : Seek(1, time, Undefined)
    \/ \E time \in {Num(0), Num(125), Num(125000)} : Seek(1, time, Bool(TRUE))
    \/ \E volume \in VolumeArgs : SetVolume(1, volume)
    \/ \E enable \in FlagArgs : Mute(1, enable)
    \/ CycleRepeat(1)
    \/ \E mode \in ModeArgs : SetRepeat(1, mode)
    \/ ToggleShuffle(1)
    \/ \E enabled \in FlagArgs : SetShuffle(1, enabled)
    \/ \E enabled \in FlagArgs : SetAutoplay(1, enabled)
    \/ \E id \in IdArgs, kind \in KindArgs : PlayById(1, id, kind)
    \/ \E id \in IdArgs : PlayNextById(1, id, Undefined)
    \/ \E id \in IdArgs : PlayLaterById(1, id, Undefined)
    \/ GetSong(1)
    \/ GetStates(1)
    \/ GetQueue(1)
    \/ GetLyricsAdvanced(1)
    \/ \E limit \in LimitArgs : Search(1, Q, Undefined, limit)
    \/ Search(1, Undefined, Undefined, Undefined)

SpecCmd == Init /\ [][NextCmd]_vars

(***************************************************************************)
(* The queries of one instance and the frames that answer them.            *)
(***************************************************************************)
Item1 == Attributes(A, UrlObject, Artwork, Num(1000), T1, Undefined, Undefined)
Item2 == Attributes(B, UrlObject, Artwork, Num(2000), T2, Undefined, Undefined)
Item3 == Attributes(Undefined, UrlMatch, Artwork, Num(3000), T1, Undefined, Undefined)

QueueItem(attributes) ==
    [t |-> "object", item |-> [t |-> "object", attributes |-> attributes]]

\* The queue object: its properties carry a leading underscore on the wire
\* (_queueItems, _isRestricted, _position, _nextPlayableItemIndex).
QueueData(items) ==
    [t |-> "object", hasAutoplayStation |-> Bool(FALSE), isRestricted |-> Bool(FALSE),
     position |-> Num(0), nextPlayableItemIndex |-> Num(1), queueItems |-> Arr(items)]

QueueFrames ==
    {Text([EmptyObject EXCEPT !.type = "queue",
                              !.data = QueueData(<<QueueItem(Item1), QueueItem(Item2)>>)]),
     Text([EmptyObject EXCEPT !.type = "queue"])}

LyricLine(toks) ==
    [t |-> "object", startTime |-> Num(0), endTime |-> Num(1), line |-> Str(toks),
     translation |-> Str(<<>>)]

Lyrics ==
    Arr(<<LyricLine(<<"lrc", ":", " ", "credits">>), LyricLine(<<>>),
          LyricLine(<<"Hello">>), LyricLine(<<" ", "World", " ">>)>>)

LyricsFrames ==
    {Text([EmptyObject EXCEPT !.type = "lyrics", !.data = Lyrics]),
     Text([EmptyObject EXCEPT !.type = "lyrics", !.data = Arr(<<>>)]),
     Text([EmptyObject EXCEPT !.type = "lyrics"])}

SearchEntry(id, attributes) == [t |-> "object", id |-> id, attributes |-> attributes]

Group(entries) == [t |-> "object", data |-> Arr(entries)]

SearchData(songs) ==
    [t |-> "object", songs |-> Group(songs),
     albums |-> Group(<<SearchEntry(Str(<<"al1">>), Undefined)>>),
     playlists |-> Group(<<>>), artists |-> Group(<<>>)]

SearchFrames ==
    {Text([EmptyObject EXCEPT !.type = "searchResults", !.data = SearchData(songs)]) :
        songs \in {<<>>, <<SearchEntry(A, Item1), SearchEntry(B, Item2),
                          SearchEntry(Str(<<"42">>), Item3)>>}}

SnapshotFrames == {Text(Flat("playbackStateUpdate", Item1))}

QueryFrames == QueueFrames \cup LyricsFrames \cup SearchFrames \cup SnapshotFrames

NextQuery ==
    \/ New(1)
    \/ Connect(1)
    \/ Close(1)
    \/ \E k \in 1..MaxSockets : TransportOpen(1, k)
    \/ \E k \in 1..MaxSockets : TransportClose(1, k)
    \/ \E text \in QueryFrames : HandleMessage(1, text)
    \/ GetSong(1)
    \/ GetStates(1)
    \/ \E which \in {"song", "states"} : PollTick(1, which)
    \/ GetQueue(1)
    \/ GetLyricsAdvanced(1)
    \/ GetLyrics(1)
    \/ Search(1, Q, Undefined, Undefined)
    \/ PlayNext(1, Q, Undefined)
    \/ RunCont

SpecQuery == Init /\ [][NextQuery]_vars

(***************************************************************************)
(* Two instances in one process.                                           *)
(***************************************************************************)
NextMulti ==
    \/ \E i \in Instances : New(i)
    \/ \E i \in Instances : Close(i)
    \/ \E i \in Instances, k \in 1..MaxSockets : TransportOpen(i, k)
    \/ \E i \in Instances, k \in 1..MaxSockets : TransportClose(i, k)
    \/ \E i \in Instances, text \in QueueFrames : HandleMessage(i, text)
    \/ \E i \in Instances, event \in {"queue", "close"}, once \in BOOLEAN :
            On(i, event, "f", once)
    \/ \E i \in Instances : RemoveListener(i, "queue", "f")
    \/ \E i \in Instances, event \in {"", "close"} : RemoveAllListeners(i, event)
    \/ \E i \in Instances : GetQueue(i)

SpecMulti == Init /\ [][NextMulti]_vars

(***************************************************************************)
(* Properties of the commands.                                             *)
(***************************************************************************)
Methods ==
    {"quit", "forceUpdate", "getSong", "getStates", "getQueue", "moveQueue", "command",
     "seek", "setVolume", "mute", "cycleRepeat", "setRepeat", "toggleShuffle",
     "setShuffle", "setAutoplay", "getLyricsAdvanced", "playById", "playNextById",
     "playLaterById", "search"}

\* The last step called one of the methods on a connection in state rs.
CalledIn(rs) ==
    /\ last.kind = "op"
    /\ last.name \in Methods
    /\ rs = ReadyState(last.inst)

\* C1: a command or query method called while the connection is not open
\* fails, sends nothing and settles nothing; and every message any step
\* handed to the socket was handed over while the socket was open.
C1_SendsOnlyWhenOpen ==
    /\ \A k \in 1..Len(last.sent) : last.sent[k].rs = 1
    /\ \A rs \in {0, 2, 3} :
          CalledIn(rs) => (last.outcome # "ok" /\ last.sent = <<>> /\ last.resolved = <<>>)

C1_Witness ==
    /\ CalledIn(2)
    /\ last.name = "setVolume"
    /\ last.args = <<Num(1)>>
    /\ last.outcome # "ok"
    /\ last.sent = <<>>

(***************************************************************************)
(* Properties of frame handling.  They read the history `last`: the frame  *)
(* handled by the last step, the snapshots cached before it, the events it *)
(* published.                                                              *)
(***************************************************************************)
IsFrame == last.kind = "frame"
\* The last step handled a frame that parsed to an object with a type tag.
Parsed == IsFrame /\ last.text.json /\ last.text.d.t = "object"
D == last.text.d
IsStateUpdate == Parsed /\ D.type = "playbackStateUpdate"
\* ... whose Track decoded
Decoded == IsStateUpdate /\ Song(D).ok
NewSong == Song(D).v
NewStat == States(D)
Count(events, name) == Len(SelectSeq(events, LAMBDA e : e.name = name))
Published(name) == Count(last.events, name)
CachesKept ==
    /\ currentSong[last.inst] = last.preSong
    /\ states[last.inst] = last.preStates

\* C2, as stated: of two playbackStateUpdate frames with identical decoded
\* PlayerState (here: one and the next such frame of a session), the first
\* published statesUpdate and the second did not.
C2_AnyTwoFrames ==
    (Decoded /\ last.preStates # Undefined /\ NewStat = last.preStates)
        => (last.preAnnounced /\ Published("statesUpdate") = 0)

\* C2, amended: a playbackStateUpdate frame publishes exactly one
\* statesUpdate when its decoded PlayerState differs from the snapshot cached
\* before it (or none is cached) and none when it is identical; so of two
\* consecutive frames with identical PlayerState the second is suppressed,
\* and the first was announced iff it differed from what preceded it.
C2_ConsecutiveFrames ==
    Decoded =>
        /\ Published("statesUpdate") =
              (IF last.preStates = Undefined \/ NewStat # last.preStates THEN 1 ELSE 0)
        /\ announced[last.inst] = (Published("statesUpdate") = 1)
        /\ states[last.inst] = NewStat

C2_Witness ==
    /\ Decoded
    /\ last.preStates # Undefined
    /\ NewStat = last.preStates
    /\ last.preAnnounced
    /\ Published("statesUpdate") = 0

\* C3: a playbackStateUpdate frame whose decoded Track has the identifier of
\* the cached Track publishes no songUpdate, whatever else differs.
C3_SameIdNoSongUpdate ==
    (Decoded /\ last.preSong # Undefined /\ NewSong.id = last.preSong.id)
        => Published("songUpdate") = 0

C3_Witness ==
    /\ Decoded
    /\ last.preSong # Undefined
    /\ NewSong.id = last.preSong.id
    /\ NewSong.title # last.preSong.title
    /\ NewSong.duration = Num(1000)
    /\ last.preSong.duration # Num(1000)
    /\ Published("songUpdate") = 0

\* The duration is absent, zero or negative.
NoDuration(song) ==
    song.duration = Undefined \/ (song.duration.t = "number" /\ song.duration.n <= 0)

\* C4: a decoded Track whose duration is zero, negative or absent publishes
\* no songUpdate, new identifier or not, cached Track or not.
C4_NoDurationNoSongUpdate ==
    (Decoded /\ NoDuration(NewSong)) => Published("songUpdate") = 0

C4_Witness ==
    /\ Decoded
    /\ NewSong.duration = Num(0)
    /\ last.preSong # Undefined
    /\ NewSong.id # last.preSong.id
    /\ currentSong[last.inst] = NewSong
    /\ Published("songUpdate") = 0

\* C8: a frame that is no JSON is dropped: no event, the snapshots kept, and
\* no error leaves the frame handler.
C8_BadJsonDropped ==
    (IsFrame /\ ~last.text.json)
        => (last.events = <<>> /\ CachesKept /\ last.outcome = "ok")

\* C9: a playbackStateUpdate frame whose Track cannot be decoded is dropped:
\* the passthrough event is published, no songUpdate and no statesUpdate,
\* the snapshots kept, and no error leaves the frame handler.
C9_UndecodableDropped ==
    (IsStateUpdate /\ ~Song(D).ok)
        => /\ Published("playbackStateUpdate") = 1
           /\ Published("songUpdate") = 0
           /\ Published("statesUpdate") = 0
           /\ CachesKept
           /\ last.outcome = "ok"

\* C10: every frame that parses is published exactly once as an event named
\* by its type tag and carrying the parsed frame, whether the type is one
\* the handler knows or not; the event is the first of the frame.
C10_PassthroughOnce ==
    Parsed =>
        /\ Len(SelectSeq(last.events, LAMBDA e : e.name = D.type /\ e.arg = D)) = 1
        /\ Published(D.type) = 1
        /\ Head(last.events) = [name |-> D.type, arg |-> D]

C10_Witness ==
    /\ Parsed
    /\ D.type = "somethingElse"
    /\ last.events = <<[name |-> "somethingElse", arg |-> D]>>

(***************************************************************************)
(* Properties of the pending queries and of the shared emitter.            *)
(***************************************************************************)
Tags == {"queue", "lyrics", "searchResults"}

\* The listeners the queries of instance i wait with.
Waiters(i) == SelectSeq(evem, LAMBDA l : l.owner = i /\ l.kind # "user")

\* The queries of instance i that are neither resolved nor rejected.
Pending(i) == Len(Waiters(i)) + polls[i].song + polls[i].states

\* C5: once the connection of an instance has closed none of its queries is
\* pending: the close rejected them all, and so no frame of a later
\* connection can complete one.
C5_NonePendingAfterClose ==
    \A i \in Instances : (Constructed(i) /\ ReadyState(i) = 3) => Pending(i) = 0

\* C6: at most one query waits per frame type, and a frame completes at most
\* one query.
C6_OneWaiterPerTag ==
    /\ \A tag \in Tags :
          Len(SelectSeq(evem, LAMBDA l : l.kind # "user" /\ l.event = tag)) <= 1
    /\ IsFrame => Len(last.resolved) <= 1

\* C7: a frame or a close of one instance calls the listeners and completes
\* the queries of that instance only, and removeAllListeners of an instance
\* removes its own listeners only.
C7_InstancesIndependent ==
    /\ last.kind \in {"frame", "close"} =>
          \A k \in 1..Len(last.invoked) : last.invoked[k].owner = last.inst
    /\ last.name = "removeAllListeners" =>
          \A k \in 1..Len(last.removed) : last.removed[k].owner = last.inst

C12_ConnectIdempotent ==
    [][ /\ (last'.kind = "op" /\ last'.name = "constructor") =>
              /\ socks[last'.inst] = <<>>
              /\ last'.created
              /\ socks'[last'.inst] = <<0>>
        /\ (last'.kind = "op" /\ last'.name = "connect") =>
              /\ ReadyState(last'.inst) \in {0, 1} => (socks' = socks /\ ~last'.created)
              /\ ReadyState(last'.inst) = 3 =>
                    (last'.created /\ socks'[last'.inst] = <<0>>)
              /\ connect(socks'[last'.inst]) = socks'[last'.inst]
      ]_vars

C12_Witness ==
    /\ last.kind = "op"
    /\ last.name = "connect"
    /\ last.created
    /\ ReadyState(last.inst) = 0

\* The transport completes its handshakes: a connecting socket opens (or
\* fails), and a closing socket closes.  The caller's calls are not forced.
SpecLive ==
    /\ Spec
    /\ WF_vars(\E k \in 1..MaxSockets : TransportOpen(1, k))
    /\ WF_vars(\E k \in 1..MaxSockets :
                  Constructed(1) /\ ReadyState(1) = 2 /\ TransportClose(1, k))

\* C13: after connect(), also when it was called between close() and the
\* transport's close callback, the instance eventually has a socket that is
\* connecting or open.
C13_ReopensAfterClose ==
    \A i \in Instances :
        (last.kind = "op" /\ last.name = "connect" /\ last.inst = i)
            ~> (Constructed(i) /\ ReadyState(i) \in {0, 1})

\* C14: in every state but open connectionCheck() raises a
\* WebsocketConnectionError and no other kind of error.
C14_ConnectionStateError ==
    \A rs \in {0, 2, 3} : CalledIn(rs) => last.outcome = "WebsocketConnectionError"

(***************************************************************************)
(* Properties of single commands.                                          *)
(***************************************************************************)
\* The last step was a call of the method that went through.
Went(name) == last.kind = "op" /\ last.name = name /\ last.outcome = "ok"

\* C15: setRepeat(t) sends cycle commands only ("repeat"), and as many as the
\* cycle off -> track -> queue -> off needs from the cached mode c to t:
\* (t - c) mod 3.
C15_ShortestCycle ==
    Went("setRepeat") =>
        /\ \A k \in 1..Len(last.sent) : last.sent[k].msg.action = "repeat"
        /\ Len(last.sent) <= 2
        /\ states[last.inst] # Undefined =>
              Len(last.sent) = (last.args[1].n - states[last.inst].repeatMode.n) % 3

\* The types of the parameters a method cannot do without, in order.
Required ==
    [moveQueue |-> <<"number", "number">>, command |-> <<"string">>,
     seek |-> <<"number">>, setVolume |-> <<"number">>, mute |-> <<"boolean">>,
     setRepeat |-> <<"number">>, setShuffle |-> <<"boolean">>,
     setAutoplay |-> <<"boolean">>, playById |-> <<"string">>,
     playNextById |-> <<"string">>, playLaterById |-> <<"string">>,
     search |-> <<"string">>]

\* A required parameter is missing or of the wrong type.
BadType(name, args) ==
    /\ name \in DOMAIN Required
    /\ \E k \in 1..Len(Required[name]) : TypeOf(args[k]) # Required[name][k]

\* A parameter of the right type has a value the method does not allow.
BadValue(name, args) ==
    CASE name = "setVolume" ->
            args[1].t = "number" /\ (args[1].n < 0 \/ args[1].n >= 1) /\ args[1] # Num(1)
      [] name = "setRepeat" ->
            args[1].t = "number" /\ (IsFrac(args[1]) \/ args[1].n \notin {0, 1, 2})
      [] name = "search" ->
            args[3] # Undefined /\
            (args[3].t # "number" \/ IsFrac(args[3]) \/ args[3].n < 1 \/ args[3].n > 50)
      [] name = "command" ->
            args[1].t = "string" /\ args[1].s \notin {<<c>> : c \in Commands}
      [] OTHER -> FALSE

ParameterErrors ==
    {"MissingParameterError", "ParameterTypeMismatchError", "ParameterRangeError", "Error"}

\* C16: a method called on an open connection with a missing, mistyped or
\* disallowed argument fails with a parameter error, sends nothing and
\* registers no waiter.
C16_InvalidArgumentFails ==
    [][ ( /\ last'.kind = "op"
          /\ last'.name \in Methods
          /\ ReadyState(last'.inst) = 1
          /\ BadType(last'.name, last'.args) \/ BadValue(last'.name, last'.args) )
        => ( /\ last'.outcome \in ParameterErrors
             /\ last'.sent = <<>>
             /\ evem' = evem )
      ]_vars

(***************************************************************************)
(* getSong and getStates over the frames that fill the snapshots.  The     *)
(* interval timer of a waiting call keeps firing.                          *)
(***************************************************************************)
PollFrames ==
    SnapshotFrames \cup GenericFrames \cup BrokenFrames
    \cup {Text(Flat("playbackStateUpdate",
                    Attributes(B, UrlObject, Undefined, Num(1000), T2, Bool(FALSE), Num(1)))),
          Text(Wrapped("playbackStateUpdate", Item2))}

NextPoll ==
    \/ New(1)
    \/ Connect(1)
    \/ Close(1)
    \/ \E k \in 1..MaxSockets : TransportOpen(1, k)
    \/ \E k \in 1..MaxSockets : TransportClose(1, k)
    \/ \E text \in PollFrames : HandleMessage(1, text)
    \/ GetSong(1)
    \/ GetStates(1)
    \/ \E which \in {"song", "states"} : PollTick(1, which)

SpecPoll ==
    /\ Init /\ [][NextPoll]_vars
    /\ WF_vars(PollTick(1, "song"))
    /\ WF_vars(PollTick(1, "states"))

Which(name) == IF name = "getSong" THEN "song" ELSE "states"

\* What a step of getSong / getStates (the call, or a run of its timer)
\* sent and resolved.
SnapshotStep ==
    (last.kind \in {"op", "tick"} /\ last.name \in {"getSong", "getStates"}) =>
        /\ Went(last.name) =>
              /\ Len(last.sent) = 1
              /\ last.sent[1].msg.action = "get-currentmediaitem"
              /\ last.sent[1].rs = 1
              /\ Len(last.resolved) =
                    (IF Snapshot(last.inst, Which(last.name)) = Undefined THEN 0 ELSE 1)
        /\ last.kind = "tick" => Len(last.resolved) = 1
        /\ \A k \in 1..Len(last.resolved) :
              /\ last.resolved[k].value # Undefined
              /\ last.resolved[k].value = Snapshot(last.inst, Which(last.name))

\* C17: getSong / getStates on an open connection send one fetch command;
\* the promise resolves at once with the cached snapshot when there is one,
\* and a call that waits is resolved once a frame has filled the snapshot;
\* no promise resolves with undefined.
C17_SnapshotResolves ==
    /\ []SnapshotStep
    /\ \A which \in {"song", "states"} :
          (polls[1][which] > 0 /\ Snapshot(1, which) # Undefined) ~> (polls[1][which] = 0)

C17_Witness ==
    /\ last.kind = "tick"
    /\ last.name = "getStates"
    /\ Len(last.resolved) = 1
    /\ last.resolved[1].value = states[1]
    /\ polls[1].states = 0

(***************************************************************************)
(* Properties of the Track decoder.                                        *)
(***************************************************************************)
\* The identifier the Track of a media item is to have: its songId, else the
\* digits after i= in its url, else the empty string.
ExpectedId(data) ==
    IF Truthy(data.songId) THEN data.songId
    ELSE IF TypeOf(data.url) = "string" /\ ExecIdFrom(data.url.s, 1) # 0
         THEN Str(<<data.url.s[ExecIdFrom(data.url.s, 1) + 1]>>)
         ELSE Str(<<>>)

\* C18: decoding the Track of a frame (whose artwork is there) never raises,
\* and the identifier is the songId when there is one, else the digits after
\* i= in the url, else the empty string.
C18_IdFallbackNeverRaises ==
    (IsStateUpdate /\ Unwrap(D).artwork.t = "object") =>
        /\ Song(D).ok
        /\ last.outcome = "ok"
        /\ Song(D).v.id = ExpectedId(Unwrap(D))

\* C19: seek(t, adjust) on an open connection, t a whole number >= 0, sends
\* one seek command carrying t, or t divided by 1000 and truncated when
\* adjust is set.
C19_SeekPayload ==
    ( /\ last.kind = "op"
      /\ last.name = "seek"
      /\ ReadyState(last.inst) = 1
      /\ last.args[1].t = "number"
      /\ ~IsNaN(last.args[1]) /\ ~IsFrac(last.args[1])
      /\ last.args[1].n >= 0 )
    => /\ last.outcome = "ok"
       /\ Len(last.sent) = 1
       /\ last.sent[1].msg =
             Msg("seek", <<Field("data",
                 Num(IF Truthy(last.args[2]) THEN last.args[1].n \div 1000
                     ELSE last.args[1].n))>>)

(***************************************************************************)
(* The lyrics queries of one instance and their answers.                   *)
(***************************************************************************)
NextLyrics ==
    \/ New(1)
    \/ Connect(1)
    \/ Close(1)
    \/ \E k \in 1..MaxSockets : TransportOpen(1, k)
    \/ \E k \in 1..MaxSockets : TransportClose(1, k)
    \/ \E text \in LyricsFrames \cup GenericFrames : HandleMessage(1, text)
    \/ GetLyricsAdvanced(1)
    \/ GetLyrics(1)
    \/ RunCont

SpecLyrics == Init /\ [][NextLyrics]_vars

(***************************************************************************)
(* Properties of getLyrics.                                                *)
(***************************************************************************)
\* The response is a list of lines of text.
IsLines(v) ==
    /\ IsArr(v)
    /\ \A k \in 1..Len(v.arr) : v.arr[k].t = "object" /\ Get(v.arr[k], "line").t = "string"

\* The lines that are neither blank nor begin with lrc, trimmed.
KeptLines(lines) ==
    SelectSeq([k \in 1..Len(lines) |-> Trim(lines[k].line)],
              LAMBDA line : line.s # <<>> /\ Head(line.s) # "lrc")

\* Each line followed by a newline, in order.
RECURSIVE Joined(_)
Joined(lines) ==
    IF lines = <<>> THEN <<>> ELSE Head(lines).s \o <<"\n">> \o Joined(Tail(lines))

\* getLyrics has gone on after its await, with the response last.args[1].
LyricsReturned == last.kind = "cont" /\ last.name = "getLyrics" /\ IsLines(last.args[1])

\* C20: getLyrics resolves with the kept lines of the response, in order,
\* each trimmed and followed by a newline; with "Hello\nWorld\n" for the
\* lines "lrc: credits", "", "Hello", "World"; with "" for no lines.
C20_LyricsText ==
    LyricsReturned =>
        /\ last.outcome = "ok"
        /\ Len(last.resolved) = 1
        /\ last.resolved[1].value = Str(Joined(KeptLines(last.args[1].arr)))
        /\ last.args[1] = Lyrics =>
              last.resolved[1].value = Str(<<"Hello", "\n", "World", "\n">>)
        /\ last.args[1] = Arr(<<>>) => last.resolved[1].value = Str(<<>>)

C20_Witness ==
    /\ LyricsReturned
    /\ last.args[1] = Lyrics
    /\ last.resolved[1].value = Str(<<"Hello", "\n", "World", "\n">>)

(***************************************************************************)
(* The song searches of one instance and their answers.                    *)
(***************************************************************************)
\* A song entry whose url names no song.
Station == Attributes(Undefined, UrlNoMatch, Artwork, Num(0), T2, Undefined, Undefined)

SongSearchFrames ==
    SearchFrames \cup
    {Text([EmptyObject EXCEPT !.type = "searchResults", !.data = SearchData(songs)]) :
        songs \in {<<SearchEntry(B, Item2)>>,
                   <<SearchEntry(A, Item1), SearchEntry(Q, Station)>>}}

NextSearch ==
    \/ New(1)
    \/ Connect(1)
    \/ Close(1)
    \/ \E k \in 1..MaxSockets : TransportOpen(1, k)
    \/ \E k \in 1..MaxSockets : TransportClose(1, k)
    \/ \E text \in SongSearchFrames \cup GenericFrames : HandleMessage(1, text)
    \/ \E limit \in {Num(1), Num(10)} : Search(1, Q, Str(<<"song">>), limit)
    \/ Search(1, Q, Undefined, Undefined)

SpecSearch == Init /\ [][NextSearch]_vars

(***************************************************************************)
(* Properties of search.                                                   *)
(***************************************************************************)
\* The song entries of the response that has just been handled.
SongEntries == last.text.d.data.songs.data.arr

\* A searchResults frame has been handled while a song search was waiting,
\* and each of its song entries decodes.
SongSearchAnswered ==
    /\ last.kind = "frame"
    /\ last.text.json
    /\ last.text.d.type = "searchResults"
    /\ \E k \in 1..Len(last.invoked) :
          last.invoked[k].kind = "search" /\ last.invoked[k].tag = "song"
    /\ \A k \in 1..Len(SongEntries) : Song(SongEntries[k].attributes).ok

StatesEvents == SelectSeq(last.events, LAMBDA e : e.name = "statesUpdate")

\* The cached PlayerState is the one of the frame just handled, and it was
\* announced iff it differs from the one cached before.
StatesFollow ==
    /\ states[last.inst] = NewStat
    /\ Len(StatesEvents) = (IF NewStat # last.preStates THEN 1 ELSE 0)
    /\ \A k \in 1..Len(StatesEvents) : StatesEvents[k].arg = NewStat
    /\ last.preStates = Undefined => Len(StatesEvents) = 1

SongEvents == SelectSeq(last.events, LAMBDA e : e.name = "songUpdate")

\* The frame just handled decoded to a Track of positive duration that is
\* new: none was cached, or the cached one has another identifier.
NewTrack ==
    /\ Decoded
    /\ NewSong.duration.t = "number"
    /\ NewSong.duration.n > 0
    /\ (last.preSong = Undefined \/ last.preSong.id # NewSong.id)

\* C23: a playbackStateUpdate frame whose decoded duration is strictly
\* positive, handled while no Track is cached or the cached Track has another
\* identifier, publishes exactly one songUpdate, carrying the decoded Track,
\* and the decoded Track replaces the cached one.
C23_NewTrackAnnouncedOnce ==
    NewTrack =>
        /\ Len(SongEvents) = 1
        /\ SongEvents[1].arg = NewSong
        /\ currentSong[last.inst] = NewSong

\* A Track replaces a cached Track with another identifier.
C23_Witness ==
    /\ NewTrack
    /\ last.preSong # Undefined
    /\ last.preSong.id = A
    /\ NewSong.id = B
    /\ Len(SongEvents) = 1
    /\ currentSong[last.inst] = NewSong

\* The frame just handled decoded to a Track of positive duration.
PlayableTrack ==
    /\ Decoded
    /\ NewSong.duration.t = "number"
    /\ NewSong.duration.n > 0

\* C24: after a playbackStateUpdate frame with identifier X and strictly
\* positive duration, the last songUpdate of the session carried identifier X
\* and the cached Track has a strictly positive duration, whatever frames
\* came before (a placeholder with identifier X and duration 0 included).
C24_TrackChangeAnnounced ==
    PlayableTrack =>
        /\ heard[last.inst] = NewSong.id
        /\ Positive(currentSong[last.inst].duration)

(***************************************************************************)
(* Properties of the order of events.                                      *)
(***************************************************************************)
\* The place of an event in the handling of one playbackStateUpdate frame.
Rank(name) ==
    CASE name = "playbackStateUpdate" -> 1
      [] name = "songUpdate" -> 2
      [] name = "statesUpdate" -> 3
      [] name = "playbackUpdate" -> 4
      [] OTHER -> 0

\* C25: a frame is handled in one piece, after the frame before it: its
\* first event is the passthrough, fired with the snapshots the earlier
\* frames left behind.  The events of one playbackStateUpdate frame come in
\* the order passthrough, songUpdate, statesUpdate, playbackUpdate, each at
\* most once, with playbackUpdate last once the Track decoded; songUpdate
\* and statesUpdate fire with the cache already holding what they carry.
C25_EventOrder ==
    Parsed =>
        /\ Len(last.events) >= 1
        /\ Len(last.seen) = Len(last.events)
        /\ last.events[1] = [name |-> D.type, arg |-> D]
        /\ last.seen[1] = [song |-> last.preSong, states |-> last.preStates]
        /\ IsStateUpdate =>
              /\ \A k \in 1..Len(last.events) : Rank(last.events[k].name) > 0
              /\ \A k \in 2..Len(last.events) :
                    Rank(last.events[k - 1].name) < Rank(last.events[k].name)
              /\ Decoded => last.events[Len(last.events)].name = "playbackUpdate"
              /\ \A k \in 1..Len(last.events) :
                    /\ last.events[k].name = "songUpdate" =>
                          /\ last.seen[k].song = last.events[k].arg
                          /\ currentSong[last.inst] = last.events[k].arg
                    /\ last.events[k].name = "statesUpdate" =>
                          /\ last.seen[k].states = last.events[k].arg
                          /\ states[last.inst] = last.events[k].arg
                    /\ last.events[k].name = "playbackUpdate" =>
                          /\ last.seen[k].song = currentSong[last.inst]
                          /\ last.seen[k].states = states[last.inst]

\* A frame that published all four events, replacing both snapshots.
C25_Witness ==
    /\ Decoded
    /\ last.preSong # Undefined
    /\ last.preStates # Undefined
    /\ [k \in 1..Len(last.events) |-> last.events[k].name] =
          <<"playbackStateUpdate", "songUpdate", "statesUpdate", "playbackUpdate">>
    /\ last.seen[2].song = NewSong
    /\ last.seen[2].states = last.preStates
    /\ last.seen[3].states = NewStat

(***************************************************************************)
(* The connections of two instances: constructor, connect(), close() and   *)
(* the transport's callbacks in any order.                                 *)
(***************************************************************************)
NextConn ==
    \/ \E i \in Instances : New(i)
    \/ \E i \in Instances : Connect(i)
    \/ \E i \in Instances : Close(i)
    \/ \E i \in Instances, k \in 1..MaxSockets : TransportOpen(i, k)
    \/ \E i \in Instances, k \in 1..MaxSockets : TransportClose(i, k)
    \/ \E i \in Instances, text \in GenericFrames : HandleMessage(i, text)

SpecConn == Init /\ [][NextConn]_vars

\* The sockets of an instance that are connecting, open or closing.
Live(sockets) == {k \in 1..Len(sockets) : sockets[k] # 3}

\* C26: an instance never has two sockets that are connecting, open or
\* closing, and a step creates a socket only for an instance that has none
\* or whose current socket is closed.
C26_OneLiveSocket ==
    /\ [](\A i \in Instances : Cardinality(Live(socks[i])) <= 1)
    /\ [][last'.created =>
            /\ Live(socks[last'.inst]) = {}
            /\ Cardinality(Live(socks'[last'.inst])) = 1
            /\ \A i \in Instances \ {last'.inst} : socks'[i] = socks[i]]_vars
    /\ [][\A i \in Instances :
              Cardinality(Live(socks'[i])) > Cardinality(Live(socks[i]))
                  => (last'.created /\ last'.inst = i)]_vars

\* connect() has replaced the closed socket of one instance while the other
\* instance's socket is open.
C26_Witness ==
    /\ last.kind = "op"
    /\ last.name = "connect"
    /\ last.inst = 2
    /\ last.created
    /\ socks[2] = <<0>>
    /\ socks[1] = <<1>>

====
